---- MODULE Spec2Model ----
\* Model of the Consul resources of terraform-provider-utils: the
\* utils_consul_exported_service and utils_consul_single_intention resources,
\* their in-process locks and the remote config-entry documents they edit.
EXTENDS Integers, Sequences, FiniteSets, TLC

\* ---------------------------------------------------------------- bounds
MaxOps == 2
MaxEntries == 2
MaxConsumers == 3
MaxSources == 2

Procs == {1, 2}
ServiceNames == {"s1", "s2"}
PeerNames == {"p1", "p2"}
DestinationNames == {"d1", "d2"}
SourceNames == {"s1", "s2"}
SourcePeers == {"p1"}

\* types.String null (an unset optional attribute)
Null == "<null>"
\* the zero value of a Go string
EmptyString == ""

\* ------------------------------------------------------- sequence helpers
SeqsUpTo(S, n) == UNION {[1..k -> S] : k \in 0..n}

\* s[:i] ++ s[i+1:] for the 1-based index i
RemoveAt(s, i) == SubSeq(s, 1, i - 1) \o SubSeq(s, i + 1, Len(s))

\* a range loop that stores the index of the first match and breaks: hits[i]
\* tells whether element i matches, dflt is the value the index starts with
FirstIdx(hits, dflt) ==
  IF \E i \in 1..Len(hits) : hits[i]
  THEN CHOOSE i \in 1..Len(hits) : hits[i] /\ \A j \in 1..(i - 1) : ~hits[j]
  ELSE dflt

\* ------------------------------------------------------------ data model
ServiceConsumer(peer) == [Peer |-> peer]

ExportedService(name, consumers) == [Name |-> name, Consumers |-> consumers]

ConsulExportedServiceResourceModel ==
  [PeerName : PeerNames, ServiceToExport : ServiceNames]

\* paths and values of KV keys; a string is the sequence of its bytes
Paths == {"test/one", "test/two"}
Values == {<<>>, <<116, 101, 115, 116>>}

\* KV().Get returns a nil pair for a path that holds no key
Absent == [nil |-> TRUE, Value |-> <<>>]

\* the api.KVPair stored under a path
KVPair(value) == [nil |-> FALSE, Value |-> value]

ConsulKeyResourceModel == [Path : Paths, Value : Values, Delete : BOOLEAN]

\* []byte(s) and string(b): a copy of the same bytes
Bytes(s) == [i \in 1..Len(s) |-> s[i] % 256]

\* a conversion that loses the bytes
StringDropped(b) == <<>>

String(b) == [i \in 1..Len(b) |-> b[i] % 256]

ConsulSingleIntentionResourceModel ==
  [DestinationService : DestinationNames, SourceService : SourceNames,
   SourcePeer : SourcePeers \cup {Null}]

\* the api.SourceIntention both branches of Create/Update build: an unset
\* source_peer leaves Peer at its zero value
SourceIntention(data) ==
  [Name |-> data.SourceService,
   Peer |-> IF data.SourcePeer = Null THEN EmptyString ELSE data.SourcePeer]

\* --------------------------------------------- exported-service reconciler
Panic == [panic |-> TRUE, Services |-> <<>>]

Ok(services) == [panic |-> FALSE, Services |-> services]

\* removeExportedService without the removal of an entry left with no consumer
removeExportedServiceKeepEntry(services, serviceToRremove, consumerToRemove) ==
  LET serviceToRemoveIdx ==
        FirstIdx([i \in 1..Len(services) |-> services[i].Name = serviceToRremove], 1)
  IN IF Len(services) = 0 THEN Panic
     ELSE LET consumers == services[serviceToRemoveIdx].Consumers
              consumerToRemoveIdx ==
                FirstIdx([i \in 1..Len(consumers) |->
                            consumers[i].Peer = consumerToRemove], 1)
          IN IF consumerToRemoveIdx > Len(consumers) THEN Panic
             ELSE Ok([services EXCEPT ![serviceToRemoveIdx].Consumers =
                                         RemoveAt(consumers, consumerToRemoveIdx)])

\* removeExportedService: both indexes start at Go's zero value (index 0, here
\* 1) and are only overwritten on a match; indexing an empty Services, or
\* slicing Consumers[idx+1:] on an empty Consumers, is a runtime panic.
removeExportedService(services, serviceToRremove, consumerToRemove) ==
  LET serviceToRemoveIdx ==
        FirstIdx([i \in 1..Len(services) |-> services[i].Name = serviceToRremove], 1)
  IN IF Len(services) = 0 THEN Panic
     ELSE LET consumers == services[serviceToRemoveIdx].Consumers
              consumerToRemoveIdx ==
                FirstIdx([i \in 1..Len(consumers) |->
                            consumers[i].Peer = consumerToRemove], 1)
          IN IF consumerToRemoveIdx > Len(consumers) THEN Panic
             ELSE LET newConsumers == RemoveAt(consumers, consumerToRemoveIdx)
                  IN IF Len(newConsumers) = 0
                     THEN Ok(RemoveAt(services, serviceToRemoveIdx))
                     ELSE Ok([services EXCEPT
                                ![serviceToRemoveIdx].Consumers = newConsumers])

\* the insertion loop of Create and Update: every entry named like the service
\* gets the consumer appended; a new entry is appended when none matched
insertExportedService(services, serviceToExport, peerName) ==
  LET newConsumer == ServiceConsumer(peerName)
      inserted == \E idx \in 1..Len(services) : services[idx].Name = serviceToExport
  IN IF inserted
     THEN [idx \in 1..Len(services) |->
             IF services[idx].Name = serviceToExport
             THEN [services[idx] EXCEPT !.Consumers = Append(@, newConsumer)]
             ELSE services[idx]]
     ELSE Append(services, ExportedService(serviceToExport, <<newConsumer>>))

\* append(s[:i], s[i+1:]...) seen through a slice header that keeps its
\* length: the elements after i move down by one and the last one stays
ShiftedInPlace(s, i) ==
  [j \in 1..Len(s) |-> IF j < i \/ j = Len(s) THEN s[j] ELSE s[j + 1]]

\* the removal loop of Delete in consul_exported_service_resource.go: it ranges
\* over copies of the entries, so the shortened Consumers is assigned to the
\* copy and the entry keeps its length over the shifted backing array
removeExportedServiceByValue(services, serviceToRremove, consumerToRemove) ==
  [k \in 1..Len(services) |->
     LET service == services[k]
         i == FirstIdx([j \in 1..Len(service.Consumers) |->
                          service.Consumers[j].Peer = consumerToRemove], 0)
     IN IF service.Name = serviceToRremove /\ i # 0
        THEN [service EXCEPT !.Consumers = ShiftedInPlace(service.Consumers, i)]
        ELSE service]

\* the insertion loop of the handlers of consul_exported_service_resource.go:
\* it ranges over copies of the entries, so the append to a matching entry is
\* lost while inserted still becomes true
insertExportedServiceByValue(services, serviceToExport, peerName) ==
  LET newConsumer == ServiceConsumer(peerName)
      inserted == \E idx \in 1..Len(services) : services[idx].Name = serviceToExport
  IN IF inserted
     THEN services
     ELSE Append(services, ExportedService(serviceToExport, <<newConsumer>>))

\* ------------------------------------------------- intention reconciler
\* the scan of Read, Update and Delete: with an unset source_peer only the
\* name is compared, otherwise name and peer
sourceMatches(source, data) ==
  IF data.SourcePeer = Null
  THEN source.Name = data.SourceService
  ELSE source.Name = data.SourceService /\ source.Peer = data.SourcePeer

\* sourceToRemove := -1, overwritten by the first match (0 stands for -1 here)
sourceToRemoveIdx(sources, data) ==
  FirstIdx([i \in 1..Len(sources) |-> sourceMatches(sources[i], data)], 0)

removeSourceIntention(sources, data) ==
  LET sourceToRemove == sourceToRemoveIdx(sources, data)
  IN IF sourceToRemove # 0 THEN RemoveAt(sources, sourceToRemove) ELSE sources

insertSourceIntention(sources, data) == Append(sources, SourceIntention(data))

\* ------------------------------------------------------------------ state
VARIABLES
  exportedServices,           \* remote exported-services/default document
  serviceIntentions,          \* remote service-intentions document per name
  kv,                         \* remote KV store: value of every path, Absent if none
  exportedServiceLock,        \* holder of exportedServiceLock, 0 when free
  singleIntentionMutexes,     \* the registry map: key -> handle
  singleIntentionMutexesLock, \* holder of the registry lock, 0 when free
  mutexes,                    \* holder of every allocated handle, 0 when free
  pc,                         \* position of every operation
  op,                         \* the handler a process runs and its plan/state data
  mutexToHangOn,              \* handle returned by getMutexForSingleIntention
  fetched,                    \* entries of the config entry as read
  fetchErr,                   \* how the Get of the running operation ended
  written,                    \* entries of the config entry handed to write
  calls,                      \* remote calls issued by the running operation
  diag,                       \* resp.Diagnostics.HasError()
  state,                      \* persisted resource state, <<>> when absent
  panicked,                   \* a runtime panic ended the provider process
  opsStarted,                 \* handlers started so far
  done                        \* handlers that returned

vars == <<exportedServices, serviceIntentions, kv, exportedServiceLock,
          singleIntentionMutexes, singleIntentionMutexesLock, mutexes, pc, op,
          mutexToHangOn, fetched, fetchErr, written, calls, diag, state, panicked,
          opsStarted, done>>

remoteVars == <<exportedServices, serviceIntentions, kv>>
lockVars == <<exportedServiceLock, singleIntentionMutexes,
              singleIntentionMutexesLock, mutexes>>
localVars == <<mutexToHangOn, fetched, fetchErr, written, calls, diag>>

NotFound == [found |-> FALSE, entries |-> <<>>]
Stored(entries) == [found |-> TRUE, entries |-> entries]

NoOp == [res |-> "none", fn |-> "none"]

ExportedId(data) == <<data.PeerName, "_", data.ServiceToExport>>

\* an id that leaves the source peer out
SingleIntentionIdNoPeer(data) == <<data.DestinationService, "_", data.SourceService>>

SingleIntentionId(data) ==
  IF data.SourcePeer # Null
  THEN <<data.DestinationService, "_", data.SourceService, "_", data.SourcePeer>>
  ELSE <<data.DestinationService, "_", data.SourceService>>

ResourceState(res, data, id) == [res |-> res, data |-> data, Id |-> id]

\* ------------------------------------------------------------ documents
\* consumer lists of stored entries: the handlers drop an entry when its last
\* consumer goes, so a stored entry has at least one
ConsumerLists ==
  SeqsUpTo({ServiceConsumer(peer) : peer \in PeerNames}, MaxConsumers) \ {<<>>}

RECURSIVE TotalConsumers(_)
TotalConsumers(services) ==
  IF services = <<>> THEN 0
  ELSE Len(Head(services).Consumers) + TotalConsumers(Tail(services))

\* the Services of a stored document: at most MaxEntries entries holding at
\* most MaxConsumers consumers together
ExportedServiceLists ==
  {l \in SeqsUpTo({ExportedService(name, consumers) :
                     name \in ServiceNames, consumers \in ConsumerLists}, MaxEntries) :
     TotalConsumers(l) <= MaxConsumers}

SourceLists ==
  SeqsUpTo([Name : SourceNames, Peer : SourcePeers \cup {EmptyString}], MaxSources)

\* -------------------------------------------------------------- handlers
\* what each handler does to the entries between read and write
ExportedServiceReconcile(fn, services, data, oldData) ==
  LET removed == IF fn \in {"Update", "Delete"}
                 THEN removeExportedService(services, oldData.ServiceToExport,
                                            oldData.PeerName)
                 ELSE Ok(services)
  IN IF removed.panic THEN Panic
     ELSE IF fn \in {"Create", "Update"}
          THEN Ok(insertExportedService(removed.Services, data.ServiceToExport,
                                        data.PeerName))
          ELSE removed

SingleIntentionReconcile(fn, sources, data, oldData) ==
  LET removed == IF fn \in {"Update", "Delete"}
                 THEN removeSourceIntention(sources, oldData)
                 ELSE sources
  IN IF fn \in {"Create", "Update"}
     THEN insertSourceIntention(removed, data)
     ELSE removed

\* writeExportedServices / writeServiceIntentions: Delete for an entry with no
\* elements, Set otherwise
WriteCallAlwaysSet(entries) == "Set"

WriteCall(entries) == IF Len(entries) = 0 THEN "Delete" ELSE "Set"

WriteResult(entries) == IF Len(entries) = 0 THEN NotFound ELSE Stored(entries)

\* readExportedServices / readServiceIntentions: any error of Get, not-found
\* included, yields the empty entry with the expected name
ReadResult(remote, err) == IF err \/ ~remote.found THEN <<>> ELSE remote.entries

\* the err of ConfigEntries().Get: nil, the 404 of a missing entry, or a
\* failure to reach the store
GetErr(remote, err) ==
  IF err THEN "transport" ELSE IF ~remote.found THEN "notFound" ELSE "nil"

\* key of the per-destination mutex and name of the document of an intention
\* handler: both are taken from the plan data (the state data for Delete)
MutexKeyShared(o) == "service-intentions"

MutexKey(o) == o.data.DestinationService

\* a document named after the destination of the prior state
DocumentNameOfState(o) == o.oldData.DestinationService

DocumentName(o) == o.data.DestinationService

\* a Lock that never waits
CanLockUnguarded(holder) == TRUE

\* sync.Mutex.Lock blocks while the mutex is held
CanLock(holder) == holder = 0

Idle(p) == pc[p] = "idle" /\ ~panicked /\ opsStarted < MaxOps

HasState(p, res) == state[p] # <<>> /\ state[p][1].res = res

Begin(p, res, fn, data, oldData, next) ==
  /\ op' = [op EXCEPT ![p] = [res |-> res, fn |-> fn, data |-> data,
                              oldData |-> oldData]]
  /\ pc' = [pc EXCEPT ![p] = next]
  /\ opsStarted' = opsStarted + 1
  /\ UNCHANGED <<remoteVars, lockVars, localVars, state, panicked, done>>

ExportedServiceCreate(p) ==
  /\ Idle(p) /\ state[p] = <<>>
  /\ \E data \in ConsulExportedServiceResourceModel :
       Begin(p, "exported", "Create", data, data, "lock")

ExportedServiceUpdate(p) ==
  /\ Idle(p) /\ HasState(p, "exported")
  /\ \E data \in ConsulExportedServiceResourceModel :
       Begin(p, "exported", "Update", data, state[p][1].data, "lock")

ExportedServiceDelete(p) ==
  /\ Idle(p) /\ HasState(p, "exported")
  /\ Begin(p, "exported", "Delete", state[p][1].data, state[p][1].data, "lock")

SingleIntentionCreate(p) ==
  /\ Idle(p) /\ state[p] = <<>>
  /\ \E data \in ConsulSingleIntentionResourceModel :
       Begin(p, "intention", "Create", data, data, "getMutex")

SingleIntentionUpdate(p) ==
  /\ Idle(p) /\ HasState(p, "intention")
  /\ \E data \in ConsulSingleIntentionResourceModel :
       Begin(p, "intention", "Update", data, state[p][1].data, "getMutex")

SingleIntentionDelete(p) ==
  /\ Idle(p) /\ HasState(p, "intention")
  /\ Begin(p, "intention", "Delete", state[p][1].data, state[p][1].data, "getMutex")

\* getMutexForSingleIntention, first half: singleIntentionMutexesLock.Lock()
GetMutexLock(p) ==
  /\ pc[p] = "getMutex" /\ ~panicked
  /\ CanLock(singleIntentionMutexesLock)
  /\ singleIntentionMutexesLock' = p
  /\ pc' = [pc EXCEPT ![p] = "registry"]
  /\ UNCHANGED <<remoteVars, exportedServiceLock, singleIntentionMutexes, mutexes,
                 op, localVars, state, panicked, opsStarted, done>>

\* a lookup that returns with the registry lock still held
RegistryUnlockMissing(holder) == holder

\* defer singleIntentionMutexesLock.Unlock(): the lock is free after the return
RegistryUnlock(holder) == 0

\* a lookup that never finds the key
MutexRegisteredNever(id) == FALSE

\* _, ok := singleIntentionMutexes[id]
MutexRegistered(id) == id \in DOMAIN singleIntentionMutexes

\* getMutexForSingleIntention, second half: lazy insert, lookup, deferred unlock
GetMutexReturn(p) ==
  /\ pc[p] = "registry" /\ ~panicked
  /\ LET id == MutexKey(op[p])
         present == MutexRegistered(id)
         handle == IF present THEN singleIntentionMutexes[id] ELSE Len(mutexes) + 1
     IN /\ singleIntentionMutexes' =
             IF present THEN singleIntentionMutexes
             ELSE singleIntentionMutexes @@ (id :> handle)
        /\ mutexes' = IF present THEN mutexes ELSE Append(mutexes, 0)
        /\ mutexToHangOn' = [mutexToHangOn EXCEPT ![p] = handle]
  /\ singleIntentionMutexesLock' = RegistryUnlock(p)
  /\ pc' = [pc EXCEPT ![p] = "lock"]
  /\ UNCHANGED <<remoteVars, exportedServiceLock, op, fetched, fetchErr, written, calls,
                 diag, state, panicked, opsStarted, done>>

\* exportedServiceLock.Lock() / singleIntentionMutex.Lock()
Lock(p) ==
  /\ pc[p] = "lock" /\ ~panicked
  /\ IF op[p].res = "exported"
     THEN /\ CanLock(exportedServiceLock)
          /\ exportedServiceLock' = p
          /\ UNCHANGED mutexes
     ELSE /\ CanLock(mutexes[mutexToHangOn[p]])
          /\ mutexes' = [mutexes EXCEPT ![mutexToHangOn[p]] = p]
          /\ UNCHANGED exportedServiceLock
  /\ pc' = [pc EXCEPT ![p] = "read"]
  /\ UNCHANGED <<remoteVars, singleIntentionMutexes, singleIntentionMutexesLock,
                 op, localVars, state, panicked, opsStarted, done>>

\* readExportedServices / readServiceIntentions inside the critical section
Fetch(p) ==
  /\ pc[p] = "read" /\ ~panicked
  /\ \E err \in BOOLEAN :
       IF op[p].res = "exported"
       THEN /\ fetched' = [fetched EXCEPT ![p] = ReadResult(exportedServices, err)]
            /\ fetchErr' = [fetchErr EXCEPT ![p] = GetErr(exportedServices, err)]
            /\ calls' = [calls EXCEPT ![p] =
                           Append(@, <<"Get", "exported-services", "default">>)]
       ELSE /\ fetched' = [fetched EXCEPT ![p] =
                             ReadResult(serviceIntentions[DocumentName(op[p])], err)]
            /\ fetchErr' = [fetchErr EXCEPT ![p] =
                              GetErr(serviceIntentions[DocumentName(op[p])], err)]
            /\ calls' = [calls EXCEPT ![p] =
                           Append(@, <<"Get", "service-intentions", DocumentName(op[p])>>)]
  /\ pc' = [pc EXCEPT ![p] = "write"]
  /\ UNCHANGED <<remoteVars, lockVars, op, mutexToHangOn, written, diag, state,
                 panicked, opsStarted, done>>

\* persisted state after a handler whose write succeeded
StateAfter(o) ==
  IF o.fn = "Delete" THEN <<>>
  ELSE IF o.res = "exported"
       THEN <<ResourceState("exported", o.data, ExportedId(o.data))>>
       ELSE <<ResourceState("intention", o.data, SingleIntentionId(o.data))>>

\* a handler that goes on after a failed write
ReturnsOnErrorNever(err) == FALSE

\* if err != nil { resp.Diagnostics.AddError(...); return }
ReturnsOnError(err) == err

\* the rest of the handler body: reconcile, write, report, set the state; a
\* panic of removeExportedService unwinds through the deferred Unlock
Apply(p) ==
  /\ pc[p] = "write" /\ ~panicked
  /\ LET o == op[p]
         result == IF o.res = "exported"
                   THEN ExportedServiceReconcile(o.fn, fetched[p], o.data, o.oldData)
                   ELSE Ok(SingleIntentionReconcile(o.fn, fetched[p], o.data, o.oldData))
         entries == result.Services
         kind == IF o.res = "exported" THEN "exported-services" ELSE "service-intentions"
         name == IF o.res = "exported" THEN "default" ELSE DocumentName(o)
     IN IF result.panic
        THEN /\ panicked' = TRUE
             /\ pc' = [pc EXCEPT ![p] = "panic"]
             /\ exportedServiceLock' = 0
             /\ UNCHANGED <<remoteVars, written, calls, diag, state>>
        ELSE /\ written' = [written EXCEPT ![p] = entries]
             /\ UNCHANGED exportedServiceLock
             /\ calls' = [calls EXCEPT ![p] = Append(@, <<WriteCall(entries), kind, name>>)]
             /\ pc' = [pc EXCEPT ![p] = "done"]
             /\ UNCHANGED panicked
             /\ \E err \in BOOLEAN :
                  /\ diag' = [diag EXCEPT ![p] = err]
                  /\ IF ReturnsOnError(err)
                     THEN UNCHANGED <<remoteVars, state>>
                     ELSE /\ state' = [state EXCEPT ![p] = StateAfter(o)]
                          /\ IF o.res = "exported"
                             THEN /\ exportedServices' = WriteResult(entries)
                                  /\ UNCHANGED <<serviceIntentions, kv>>
                             ELSE /\ serviceIntentions' =
                                       [serviceIntentions EXCEPT ![name] = WriteResult(entries)]
                                  /\ UNCHANGED <<exportedServices, kv>>
  /\ UNCHANGED <<singleIntentionMutexes, singleIntentionMutexesLock, mutexes, op,
                 mutexToHangOn, fetched, fetchErr, opsStarted, done>>

\* Read of an exported service: no lock, one Get, a scan, the state
ExportedServiceRead(p) ==
  /\ Idle(p) /\ HasState(p, "exported")
  /\ LET data == state[p][1].data
     IN \E err \in BOOLEAN :
          LET services == ReadResult(exportedServices, err)
              found == \E i \in 1..Len(services) :
                         /\ services[i].Name = data.ServiceToExport
                         /\ \E j \in 1..Len(services[i].Consumers) :
                              services[i].Consumers[j].Peer = data.PeerName
          IN /\ fetched' = [fetched EXCEPT ![p] = services]
             /\ fetchErr' = [fetchErr EXCEPT ![p] = GetErr(exportedServices, err)]
             /\ state' = [state EXCEPT ![p] =
                            IF found
                            THEN <<ResourceState("exported", data, ExportedId(data))>>
                            ELSE <<>>]
             /\ op' = [op EXCEPT ![p] = [res |-> "exported", fn |-> "Read",
                                         data |-> data, oldData |-> data]]
  /\ calls' = [calls EXCEPT ![p] = <<<<"Get", "exported-services", "default">>>>]
  /\ pc' = [pc EXCEPT ![p] = "done"]
  /\ opsStarted' = opsStarted + 1
  /\ UNCHANGED <<remoteVars, lockVars, mutexToHangOn, written, diag, panicked, done>>

\* Read of an intention
SingleIntentionRead(p) ==
  /\ Idle(p) /\ HasState(p, "intention")
  /\ LET data == state[p][1].data
     IN \E err \in BOOLEAN :
          LET sources == ReadResult(serviceIntentions[data.DestinationService], err)
              found == \E i \in 1..Len(sources) : sourceMatches(sources[i], data)
          IN /\ fetched' = [fetched EXCEPT ![p] = sources]
             /\ fetchErr' = [fetchErr EXCEPT ![p] =
                               GetErr(serviceIntentions[data.DestinationService], err)]
             /\ state' = [state EXCEPT ![p] =
                            IF found
                            THEN <<ResourceState("intention", data, SingleIntentionId(data))>>
                            ELSE <<>>]
             /\ op' = [op EXCEPT ![p] = [res |-> "intention", fn |-> "Read",
                                         data |-> data, oldData |-> data]]
             /\ calls' = [calls EXCEPT ![p] =
                            <<<<"Get", "service-intentions", data.DestinationService>>>>]
  /\ pc' = [pc EXCEPT ![p] = "done"]
  /\ opsStarted' = opsStarted + 1
  /\ UNCHANGED <<remoteVars, lockVars, mutexToHangOn, written, diag, panicked, done>>

\* the id of a key is its path
KeyId(data) == <<data.Path>>

KeyState(data) == <<ResourceState("key", data, KeyId(data))>>

\* Create of a key: one Put; an error ends the handler before the state is set
KeyCreate(p) ==
  /\ Idle(p) /\ state[p] = <<>>
  /\ \E data \in ConsulKeyResourceModel, err \in BOOLEAN :
       /\ op' = [op EXCEPT ![p] = [res |-> "key", fn |-> "Create", data |-> data,
                                   oldData |-> data]]
       /\ calls' = [calls EXCEPT ![p] = <<<<"KVPut", "kv", data.Path>>>>]
       /\ diag' = [diag EXCEPT ![p] = err]
       /\ IF err
          THEN UNCHANGED <<kv, state>>
          ELSE /\ kv' = [kv EXCEPT ![data.Path] = KVPair(Bytes(data.Value))]
               /\ state' = [state EXCEPT ![p] = KeyState(data)]
  /\ pc' = [pc EXCEPT ![p] = "done"]
  /\ opsStarted' = opsStarted + 1
  /\ UNCHANGED <<exportedServices, serviceIntentions, lockVars, mutexToHangOn,
                 fetched, fetchErr, written, panicked, done>>

\* Read of a key: one Get; an error leaves the state, a nil pair removes the
\* resource, a pair refreshes value and id
KeyRead(p) ==
  /\ Idle(p) /\ HasState(p, "key")
  /\ LET data == state[p][1].data
     IN /\ op' = [op EXCEPT ![p] = [res |-> "key", fn |-> "Read", data |-> data,
                                    oldData |-> data]]
        /\ calls' = [calls EXCEPT ![p] = <<<<"KVGet", "kv", data.Path>>>>]
        /\ \E err \in BOOLEAN :
             /\ diag' = [diag EXCEPT ![p] = err]
             /\ fetchErr' = [fetchErr EXCEPT ![p] = IF err THEN "transport" ELSE "nil"]
             /\ fetched' = [fetched EXCEPT ![p] = IF err THEN <<>> ELSE <<kv[data.Path]>>]
             /\ state' = [state EXCEPT ![p] =
                            IF err THEN @
                            ELSE IF kv[data.Path] = Absent THEN <<>>
                            ELSE KeyState([data EXCEPT !.Value = String(kv[data.Path].Value)])]
  /\ pc' = [pc EXCEPT ![p] = "done"]
  /\ opsStarted' = opsStarted + 1
  /\ UNCHANGED <<remoteVars, lockVars, mutexToHangOn, written, panicked, done>>

\* Update of a key, up to its Put: path and value are replace-on-change, so
\* the plan differs from the state in delete only; the Delete call is guarded
\* by the delete flag of the state and names the path of the plan
KeyUpdate(p) ==
  /\ Idle(p) /\ HasState(p, "key")
  /\ LET oldData == state[p][1].data
         data == [oldData EXCEPT !.Delete = ~oldData.Delete]
     IN /\ op' = [op EXCEPT ![p] = [res |-> "key", fn |-> "Update", data |-> data,
                                    oldData |-> oldData]]
        /\ IF oldData.Delete
           THEN /\ calls' = [calls EXCEPT ![p] = <<<<"KVDelete", "kv", data.Path>>>>]
                /\ \E err \in BOOLEAN :
                     /\ diag' = [diag EXCEPT ![p] = err]
                     /\ pc' = [pc EXCEPT ![p] = IF err THEN "done" ELSE "put"]
                     /\ kv' = IF err THEN kv ELSE [kv EXCEPT ![data.Path] = Absent]
           ELSE /\ pc' = [pc EXCEPT ![p] = "put"]
                /\ UNCHANGED <<kv, calls, diag>>
  /\ opsStarted' = opsStarted + 1
  /\ UNCHANGED <<exportedServices, serviceIntentions, lockVars, mutexToHangOn,
                 fetched, fetchErr, written, state, panicked, done>>

\* the Put of Update and what follows it
KeyPut(p) ==
  /\ pc[p] = "put" /\ ~panicked
  /\ LET data == op[p].data
     IN /\ calls' = [calls EXCEPT ![p] = Append(@, <<"KVPut", "kv", data.Path>>)]
        /\ \E err \in BOOLEAN :
             /\ diag' = [diag EXCEPT ![p] = err]
             /\ IF err
                THEN UNCHANGED <<kv, state>>
                ELSE /\ kv' = [kv EXCEPT ![data.Path] = KVPair(Bytes(data.Value))]
                     /\ state' = [state EXCEPT ![p] = KeyState(data)]
  /\ pc' = [pc EXCEPT ![p] = "done"]
  /\ UNCHANGED <<exportedServices, serviceIntentions, lockVars, op, mutexToHangOn,
                 fetched, fetchErr, written, panicked, opsStarted, done>>

\* a Delete that ignores the delete flag
KeyDeletesAlways(data) == TRUE

\* data.Delete.ValueBool() of the Delete handler
KeyDeletes(data) == data.Delete

\* Delete of a key: the remote Delete is issued only when delete is set, and
\* its error keeps the resource in the state
KeyDelete(p) ==
  /\ Idle(p) /\ HasState(p, "key")
  /\ LET data == state[p][1].data
     IN /\ op' = [op EXCEPT ![p] = [res |-> "key", fn |-> "Delete", data |-> data,
                                    oldData |-> data]]
        /\ IF KeyDeletes(data)
           THEN /\ calls' = [calls EXCEPT ![p] = <<<<"KVDelete", "kv", data.Path>>>>]
                /\ \E err \in BOOLEAN :
                     /\ diag' = [diag EXCEPT ![p] = err]
                     /\ IF err
                        THEN UNCHANGED <<kv, state>>
                        ELSE /\ kv' = [kv EXCEPT ![data.Path] = Absent]
                             /\ state' = [state EXCEPT ![p] = <<>>]
           ELSE /\ state' = [state EXCEPT ![p] = <<>>]
                /\ UNCHANGED <<kv, calls, diag>>
  /\ pc' = [pc EXCEPT ![p] = "done"]
  /\ opsStarted' = opsStarted + 1
  /\ UNCHANGED <<exportedServices, serviceIntentions, lockVars, mutexToHangOn,
                 fetched, fetchErr, written, panicked, done>>

\* Create of consul_exported_service_resource.go: no lock is taken
UnlockedCreate(p) ==
  /\ Idle(p) /\ state[p] = <<>>
  /\ \E data \in ConsulExportedServiceResourceModel :
       Begin(p, "exportedUnlocked", "Create", data, data, "get")

\* Delete of consul_exported_service_resource.go
UnlockedDelete(p) ==
  /\ Idle(p) /\ HasState(p, "exported")
  /\ Begin(p, "exportedUnlocked", "Delete", state[p][1].data, state[p][1].data, "get")

\* their Get: an error, not-found included, ends the handler with an error
UnlockedGet(p) ==
  /\ pc[p] = "get" /\ ~panicked
  /\ calls' = [calls EXCEPT ![p] = Append(@, <<"Get", "exported-services", "default">>)]
  /\ \E err \in BOOLEAN :
       /\ fetchErr' = [fetchErr EXCEPT ![p] = GetErr(exportedServices, err)]
       /\ IF err \/ ~exportedServices.found
          THEN /\ diag' = [diag EXCEPT ![p] = TRUE]
               /\ pc' = [pc EXCEPT ![p] = "done"]
               /\ UNCHANGED fetched
          ELSE /\ fetched' = [fetched EXCEPT ![p] = exportedServices.entries]
               /\ pc' = [pc EXCEPT ![p] = "set"]
               /\ UNCHANGED diag
  /\ UNCHANGED <<remoteVars, lockVars, op, mutexToHangOn, written, state,
                 panicked, opsStarted, done>>

\* the loop of the handler and its Set, which is issued whatever the entry holds
UnlockedSet(p) ==
  /\ pc[p] = "set" /\ ~panicked
  /\ LET o == op[p]
         entries == IF o.fn = "Create"
                    THEN insertExportedServiceByValue(fetched[p], o.data.ServiceToExport,
                                                      o.data.PeerName)
                    ELSE removeExportedServiceByValue(fetched[p], o.data.ServiceToExport,
                                                      o.data.PeerName)
     IN /\ written' = [written EXCEPT ![p] = entries]
        /\ calls' = [calls EXCEPT ![p] = Append(@, <<"Set", "exported-services", "default">>)]
        /\ \E err \in BOOLEAN :
             /\ diag' = [diag EXCEPT ![p] = err]
             /\ IF err
                THEN UNCHANGED <<remoteVars, state>>
                ELSE /\ exportedServices' = Stored(entries)
                     /\ state' = [state EXCEPT ![p] =
                                    IF o.fn = "Delete" THEN <<>>
                                    ELSE <<ResourceState("exported", o.data,
                                                         ExportedId(o.data))>>]
                     /\ UNCHANGED <<serviceIntentions, kv>>
  /\ pc' = [pc EXCEPT ![p] = "done"]
  /\ UNCHANGED <<lockVars, op, mutexToHangOn, fetched, fetchErr, panicked, opsStarted, done>>

\* a return that runs no deferred Unlock
HasDeferredUnlockNever(o) == FALSE

\* the handlers that locked: Create, Update and Delete of the locked resources
HasDeferredUnlock(o) ==
  ~(o.fn = "Read" \/ o.res \in {"exportedUnlocked", "key"})

\* the handler returns: the deferred Unlock of Create, Update and Delete runs
Return(p) ==
  /\ pc[p] = "done" /\ ~panicked
  /\ IF ~HasDeferredUnlock(op[p])
     THEN UNCHANGED <<exportedServiceLock, mutexes>>
     ELSE IF op[p].res = "exported"
          THEN exportedServiceLock' = 0 /\ UNCHANGED mutexes
          ELSE /\ mutexes' = [mutexes EXCEPT ![mutexToHangOn[p]] = 0]
               /\ UNCHANGED exportedServiceLock
  /\ done' = done \cup {[p |-> p, op |-> op[p], err |-> diag[p]]}
  /\ pc' = [pc EXCEPT ![p] = "idle"]
  /\ op' = [op EXCEPT ![p] = NoOp]
  /\ mutexToHangOn' = [mutexToHangOn EXCEPT ![p] = 0]
  /\ fetched' = [fetched EXCEPT ![p] = <<>>]
  /\ fetchErr' = [fetchErr EXCEPT ![p] = ""]
  /\ written' = [written EXCEPT ![p] = <<>>]
  /\ calls' = [calls EXCEPT ![p] = <<>>]
  /\ diag' = [diag EXCEPT ![p] = FALSE]
  /\ UNCHANGED <<remoteVars, singleIntentionMutexes, singleIntentionMutexesLock,
                 state, panicked, opsStarted>>

\* ------------------------------------------------------------ behaviours
InitialStates ==
  {<<>>}
  \cup {<<ResourceState("exported", data, ExportedId(data))>> :
          data \in ConsulExportedServiceResourceModel}
  \cup {<<ResourceState("intention", data, SingleIntentionId(data))>> :
          data \in ConsulSingleIntentionResourceModel}
  \cup {KeyState(data) : data \in ConsulKeyResourceModel}

\* a provider process before its first handler: free locks, a nil registry
Started ==
  /\ exportedServiceLock = 0
  /\ singleIntentionMutexes = <<>>
  /\ singleIntentionMutexesLock = 0
  /\ mutexes = <<>>
  /\ pc = [p \in Procs |-> "idle"]
  /\ op = [p \in Procs |-> NoOp]
  /\ mutexToHangOn = [p \in Procs |-> 0]
  /\ fetched = [p \in Procs |-> <<>>]
  /\ fetchErr = [p \in Procs |-> ""]
  /\ written = [p \in Procs |-> <<>>]
  /\ calls = [p \in Procs |-> <<>>]
  /\ diag = [p \in Procs |-> FALSE]
  /\ panicked = FALSE
  /\ done = {}

\* a first apply: nothing stored remotely, no resource in the state
Init ==
  /\ Started
  /\ exportedServices = NotFound
  /\ serviceIntentions = [d \in DestinationNames |-> NotFound]
  /\ kv = [path \in Paths |-> Absent]
  /\ state = [p \in Procs |-> <<>>]
  /\ opsStarted = 0

\* a later run: the remote documents and the state of the first resource are
\* whatever earlier runs and other writers left behind, and one handler runs
InitDocs ==
  /\ Started
  /\ state \in [Procs -> InitialStates]
  /\ \A p \in Procs : p # 1 => state[p] = <<>>
  /\ \/ /\ exportedServices \in {NotFound} \cup {Stored(l) : l \in ExportedServiceLists}
        /\ serviceIntentions = [d \in DestinationNames |-> NotFound]
        /\ kv = [path \in Paths |-> Absent]
        /\ state[1] # <<>> => state[1][1].res = "exported"
     \/ /\ exportedServices = NotFound
        /\ \E d \in DestinationNames, l \in SourceLists :
             serviceIntentions = [e \in DestinationNames |->
                                    IF e = d THEN Stored(l) ELSE NotFound]
        /\ kv = [path \in Paths |-> Absent]
        /\ state[1] # <<>> => state[1][1].res = "intention"
     \/ /\ exportedServices = NotFound
        /\ serviceIntentions = [d \in DestinationNames |-> NotFound]
        /\ kv \in [Paths -> {KVPair(Bytes(v)) : v \in Values} \cup {Absent}]
        /\ state[1] # <<>> /\ state[1][1].res = "key"
  /\ opsStarted = MaxOps - 1

Next ==
  \E p \in Procs :
    \/ ExportedServiceCreate(p)
    \/ ExportedServiceRead(p)
    \/ ExportedServiceUpdate(p)
    \/ ExportedServiceDelete(p)
    \/ SingleIntentionCreate(p)
    \/ SingleIntentionRead(p)
    \/ SingleIntentionUpdate(p)
    \/ SingleIntentionDelete(p)
    \/ GetMutexLock(p)
    \/ GetMutexReturn(p)
    \/ Lock(p)
    \/ Fetch(p)
    \/ Apply(p)
    \/ KeyCreate(p)
    \/ KeyRead(p)
    \/ KeyUpdate(p)
    \/ KeyPut(p)
    \/ KeyDelete(p)
    \/ Return(p)

Spec == Init /\ [][Next]_vars

SpecDocs == InitDocs /\ [][Next]_vars

\* every remote call returns and every handler goes on to its next statement
\* (weak fairness of the steps that wait for nothing), and a Lock call that
\* can be served again and again is served in the end (strong fairness:
\* sync.Mutex hands the lock to a waiter that has waited long)
Fairness ==
  \A p \in Procs :
    /\ WF_vars(GetMutexReturn(p))
    /\ WF_vars(Fetch(p))
    /\ WF_vars(Apply(p))
    /\ WF_vars(KeyPut(p))
    /\ WF_vars(Return(p))
    /\ SF_vars(GetMutexLock(p))
    /\ SF_vars(Lock(p))

SpecFair == Init /\ [][Next]_vars /\ Fairness

\* the handlers of consul_exported_service_resource.go
NextUnlocked ==
  \E p \in Procs :
    \/ UnlockedCreate(p)
    \/ UnlockedDelete(p)
    \/ UnlockedGet(p)
    \/ UnlockedSet(p)
    \/ Return(p)

SpecUnlocked == InitDocs /\ [][NextUnlocked]_vars

\* the key resource alone: any store, any state, MaxOps handlers
InitKeys ==
  /\ Started
  /\ exportedServices = NotFound
  /\ serviceIntentions = [d \in DestinationNames |-> NotFound]
  /\ kv \in [Paths -> {KVPair(Bytes(v)) : v \in Values} \cup {Absent}]
  /\ state \in [Procs -> {<<>>} \cup {KeyState(data) : data \in ConsulKeyResourceModel}]
  /\ opsStarted = 0

NextKeys ==
  \E p \in Procs :
    \/ KeyCreate(p)
    \/ KeyRead(p)
    \/ KeyUpdate(p)
    \/ KeyPut(p)
    \/ KeyDelete(p)
    \/ Return(p)

SpecKeys == InitKeys /\ [][NextKeys]_vars

\* ------------------------------------------------------------ properties
CUD == {"Create", "Update", "Delete"}

\* between the Lock and the deferred Unlock of a Create, Update or Delete
InCS(p) ==
  /\ pc[p] \in {"read", "write", "done"}
  /\ op[p].res \in {"exported", "intention"}
  /\ op[p].fn \in CUD

\* the remote document a handler reads and writes
DocKey(p) ==
  IF op[p].res = "intention"
  THEN <<"service-intentions", DocumentName(op[p])>>
  ELSE <<"exported-services", "default">>

Finished(p, res, fn) == pc[p] = "done" /\ op[p].res = res /\ op[p].fn = fn

Wrote(p) == \E i \in 1..Len(calls[p]) : calls[p][i][1] \in {"Set", "Delete"}

\* C1: no two Create/Update/Delete handlers are at once between Lock and
\* Unlock for the same remote document.
C1_MutualExclusion ==
  \A p, q \in Procs : (p # q /\ InCS(p) /\ InCS(q)) => DocKey(p) # DocKey(q)

\* one handler is inside while another waits for the lock of the same document
C1_Witness ==
  \E p, q \in Procs :
    /\ p # q /\ InCS(p) /\ pc[p] = "write"
    /\ pc[q] = "lock" /\ DocKey(q) = DocKey(p)

HasConsumer(services, data) ==
  \E i \in 1..Len(services) :
    /\ services[i].Name = data.ServiceToExport
    /\ \E j \in 1..Len(services[i].Consumers) :
         services[i].Consumers[j].Peer = data.PeerName

\* C2: once exported-service Creates for distinct (service, peer) pairs have
\* all returned without error, and nothing else ran, the remote document
\* holds the consumer of every one of them.
C2_NoLostUpdate ==
  ( /\ \A p \in Procs : pc[p] = "idle"
    /\ opsStarted = Cardinality(done)
    /\ \A d \in done : d.op.res = "exported" /\ d.op.fn = "Create" /\ ~d.err
    /\ \A d, e \in done : d # e => d.op.data # e.op.data )
  => \A d \in done : HasConsumer(exportedServices.entries, d.op.data)

\* C3: an intention handler waiting for the lock of its destination, while no
\* other handler is inside for that destination, finds its mutex free, and a
\* handler inside its critical section does not hold the registry lock.
C3_KeyIndependence ==
  \A q \in Procs :
    /\ InCS(q) => singleIntentionMutexesLock # q
    /\ ( /\ pc[q] = "lock" /\ op[q].res = "intention"
         /\ \A p \in Procs : (p # q /\ InCS(p)) => DocKey(p) # DocKey(q) )
       => CanLock(mutexes[mutexToHangOn[q]])

\* a handler waits for destination B while another is inside for destination A
C3_Witness ==
  \E p, q \in Procs :
    /\ p # q /\ InCS(p) /\ op[p].res = "intention"
    /\ pc[q] = "lock" /\ op[q].res = "intention"
    /\ DocKey(p) # DocKey(q)

\* C4: the reconciler never fails at run time, whatever document was read.
C4_ReconcilerTotal == ~panicked

\* C5: an exported-service Delete, or the removal of an Update, for a
\* (service, peer) the document read does not hold changes nothing: Delete
\* writes what it read, Update what it read plus the new consumer.
C5_RemoveMissNoOp ==
  \A p \in Procs :
    ( /\ pc[p] = "done" /\ op[p].res = "exported"
      /\ op[p].fn \in {"Update", "Delete"}
      /\ ~HasConsumer(fetched[p], op[p].oldData) )
    => written[p] = IF op[p].fn = "Delete" THEN fetched[p]
                    ELSE insertExportedService(fetched[p], op[p].data.ServiceToExport,
                                               op[p].data.PeerName)

HasSource(sources, data) ==
  \E i \in 1..Len(sources) : sources[i] = SourceIntention(data)

\* C6: an intention Delete for a (source service, source peer) the document
\* read does not hold writes back the sources it read, and when the write
\* succeeds reports no error and removes the resource from the state.
C6_IntentionMissNoOp ==
  \A p \in Procs :
    (Finished(p, "intention", "Delete") /\ ~HasSource(fetched[p], op[p].oldData))
    => /\ written[p] = fetched[p]
       /\ ~diag[p] => state[p] = <<>>

\* C7: removing again from the document a Delete computed changes nothing.
C7_IdempotentRemoval ==
  \A p \in Procs :
    /\ Finished(p, "exported", "Delete") =>
         removeExportedService(written[p], op[p].oldData.ServiceToExport,
                               op[p].oldData.PeerName) = Ok(written[p])
    /\ Finished(p, "intention", "Delete") =>
         removeSourceIntention(written[p], op[p].oldData) = written[p]

\* the removal of the member a Create inserted, applied to what Create wrote
RemovedAgain(p) ==
  IF op[p].res = "exported"
  THEN removeExportedService(written[p], op[p].data.ServiceToExport, op[p].data.PeerName)
  ELSE Ok(removeSourceIntention(written[p], op[p].data))

\* C8 as stated: for every document, removing the member a Create inserted
\* gives back the document the Create read.
C8_RoundTrip ==
  \A p \in Procs :
    (pc[p] = "done" /\ op[p].res \in {"exported", "intention"} /\ op[p].fn = "Create")
    => RemovedAgain(p) = Ok(fetched[p])

\* the documents the round trip holds for: at most one entry under the key,
\* that entry not empty, and no member the removal predicate matches
RoundTripDomain(p) ==
  IF op[p].res = "exported"
  THEN /\ ~HasConsumer(fetched[p], op[p].data)
       /\ \A i, j \in 1..Len(fetched[p]) :
            (fetched[p][i].Name = op[p].data.ServiceToExport /\
             fetched[p][j].Name = op[p].data.ServiceToExport) => i = j
       /\ \A i \in 1..Len(fetched[p]) :
            fetched[p][i].Name = op[p].data.ServiceToExport
              => Len(fetched[p][i].Consumers) > 0
  ELSE \A i \in 1..Len(fetched[p]) : ~sourceMatches(fetched[p][i], op[p].data)

\* C8 amended: when the document read has at most one entry under the key,
\* that entry has a member, and no member is matched by the removal predicate,
\* removing the member a Create inserted gives back the document read.
C8_RoundTripAmended ==
  \A p \in Procs :
    ( /\ pc[p] = "done" /\ op[p].res \in {"exported", "intention"}
      /\ op[p].fn = "Create" /\ RoundTripDomain(p) )
    => RemovedAgain(p) = Ok(fetched[p])

\* a Create added a consumer to an entry that stays after the removal, next
\* to an unrelated entry
C8_Witness ==
  \E p \in Procs :
    /\ Finished(p, "exported", "Create") /\ RoundTripDomain(p)
    /\ Len(fetched[p]) = 2
    /\ \E i \in 1..2 : fetched[p][i].Name = op[p].data.ServiceToExport

\* C9: Create writes the document it read with the peer appended to the
\* consumers of the entry named like the service and no entry added, or, when
\* no entry has that name, with a new entry {service, [peer]} appended.
C9_InsertIntoEntry ==
  \A p \in Procs :
    ( /\ pc[p] = "done" /\ op[p].res \in {"exported", "exportedUnlocked"}
      /\ op[p].fn = "Create" /\ Wrote(p) )
    => LET S == op[p].data.ServiceToExport
           P == ServiceConsumer(op[p].data.PeerName)
           f == fetched[p]
           w == written[p]
       IN IF \E i \in 1..Len(f) : f[i].Name = S
          THEN /\ Len(w) = Len(f)
               /\ \A i \in 1..Len(f) :
                    w[i] = IF f[i].Name = S
                           THEN ExportedService(S, Append(f[i].Consumers, P))
                           ELSE f[i]
          ELSE w = Append(f, ExportedService(S, <<P>>))

Distinct(s) == \A i, j \in 1..Len(s) : s[i] = s[j] => i = j

\* no remote document holds two entries with the same natural key
UniqueKeys ==
  /\ Distinct([i \in 1..Len(exportedServices.entries) |-> exportedServices.entries[i].Name])
  /\ \A d \in DestinationNames : Distinct(serviceIntentions[d].entries)

\* C10: no handler turns remote documents with pairwise distinct natural keys
\* into documents with a repeated one.
C10_UniqueKeys == [][UniqueKeys => UniqueKeys']_vars

\* the Set and Delete calls a handler issued, in order
Writes(p) == SelectSeq(calls[p], LAMBDA c : c[1] \in {"Set", "Delete"})

\* the one-member entry built from the values a Delete removes
OnlyMember(o) ==
  IF o.res = "exported"
  THEN ExportedService(o.oldData.ServiceToExport, <<ServiceConsumer(o.oldData.PeerName)>>)
  ELSE SourceIntention(o.oldData)

\* C11: a Create, Update or Delete that computed a document issues exactly one
\* write for it: a Delete and no Set when the document has no entry, a Set
\* otherwise; and after a successful Delete of the only member of the only
\* entry the remote document is absent.
C11_EmptyIsDeleted ==
  \A p \in Procs :
    (pc[p] = "done" /\ op[p].res \in {"exported", "intention"} /\ op[p].fn \in CUD)
    => /\ Len(Writes(p)) = 1
       /\ Writes(p)[1][1] = (IF Len(written[p]) = 0 THEN "Delete" ELSE "Set")
       /\ <<Writes(p)[1][2], Writes(p)[1][3]>> = DocKey(p)
       /\ ( /\ op[p].fn = "Delete" /\ ~diag[p]
            /\ fetched[p] = <<OnlyMember(op[p])>> )
          => IF op[p].res = "exported"
             THEN exportedServices = NotFound
             ELSE serviceIntentions[DocumentName(op[p])] = NotFound

\* a Delete removed the only consumer of the only entry and its write succeeded
C11_Witness ==
  \E p \in Procs :
    /\ Finished(p, "exported", "Delete") /\ ~diag[p]
    /\ fetched[p] = <<OnlyMember(op[p])>>
    /\ Writes(p) = <<<<"Delete", "exported-services", "default">>>>

\* the one-member document a Create builds from nothing
NewDocument(o) ==
  IF o.res = "intention"
  THEN <<SourceIntention(o.data)>>
  ELSE <<ExportedService(o.data.ServiceToExport, <<ServiceConsumer(o.data.PeerName)>>)>>

\* C12: a Create whose Get reported not-found goes on with the empty document
\* of the expected name: it reports no error for the Get and issues the Set of
\* a document that holds exactly the new member.
C12_NotFoundNormalised ==
  \A p \in Procs :
    ( /\ pc[p] = "done" /\ op[p].fn = "Create"
      /\ op[p].res \in {"exported", "intention", "exportedUnlocked"}
      /\ fetchErr[p] = "notFound" )
    => /\ Writes(p) = <<<<"Set", DocKey(p)[1], DocKey(p)[2]>>>>
       /\ written[p] = NewDocument(op[p])
       /\ ~diag[p] => (state[p] # <<>> /\ state[p][1].data = op[p].data)

\* the persisted state a handler started from
PriorState(o) ==
  IF o.fn = "Create" THEN <<>>
  ELSE IF o.res = "intention"
       THEN <<ResourceState("intention", o.oldData, SingleIntentionId(o.oldData))>>
       ELSE IF o.res = "key" THEN KeyState(o.oldData)
       ELSE <<ResourceState("exported", o.oldData, ExportedId(o.oldData))>>

\* C13: a Create, Update, Delete or Read whose Get failed for a reason other
\* than not-found reports an error, issues no Set and no Delete, and leaves
\* the persisted state as it was.
C13_TransportFailureFatal ==
  \A p \in Procs :
    ( /\ pc[p] = "done" /\ op[p].res \in {"exported", "intention"}
      /\ fetchErr[p] = "transport" )
    => /\ diag[p]
       /\ Writes(p) = <<>>
       /\ state[p] = PriorState(op[p])

ExpectedId(res, data) ==
  IF res = "exported" THEN <<data.PeerName>> \o <<"_">> \o <<data.ServiceToExport>>
  ELSE IF res = "intention"
       THEN <<data.DestinationService>> \o <<"_">> \o <<data.SourceService>>
            \o (IF data.SourcePeer = Null THEN <<>> ELSE <<"_", data.SourcePeer>>)
       ELSE <<data.Path>>

\* C15: the state a successful Create, Update or Read leaves holds the fields
\* the handler was given and the id those fields determine: peer_service,
\* destination_source with _peer exactly when source_peer is set, or the path.
C15_IdFromFields ==
  \A p \in Procs :
    ( /\ pc[p] = "done" /\ ~diag[p] /\ state[p] # <<>>
      /\ op[p].res \in {"exported", "intention", "key"}
      /\ op[p].fn \in {"Create", "Update", "Read"} )
    => /\ state[p][1].res = op[p].res
       /\ state[p][1].Id = ExpectedId(op[p].res, state[p][1].data)
       /\ op[p].res # "key" => state[p][1].data = op[p].data
       /\ op[p].res = "key" => state[p][1].data.Path = op[p].data.Path

\* an intention with a source peer was updated into one without
C15_Witness ==
  \E p \in Procs :
    /\ Finished(p, "intention", "Update") /\ ~diag[p] /\ state[p] # <<>>
    /\ op[p].oldData.SourcePeer # Null /\ op[p].data.SourcePeer = Null
    /\ Len(state[p][1].Id) = 3

\* a handler holds none of the locks
HoldsNoLock(p) ==
  /\ exportedServiceLock # p
  /\ singleIntentionMutexesLock # p
  /\ \A h \in 1..Len(mutexes) : mutexes[h] # p

\* the document read holds the member of the resource's own natural key
MemberPresent(o, entries) ==
  IF o.res = "exported" THEN HasConsumer(entries, o.data) ELSE HasSource(entries, o.data)

\* C16: a Read of an exported service or an intention issues no Set and no
\* Delete and holds no lock; it keeps the resource in the state, with the id
\* recomputed, exactly when the document it read holds the member of the
\* resource, and removes it from the state otherwise.
C16_ReadOnlyObserves ==
  \A p \in Procs :
    (pc[p] = "done" /\ op[p].res \in {"exported", "intention"} /\ op[p].fn = "Read")
    => /\ Writes(p) = <<>>
       /\ HoldsNoLock(p)
       /\ state[p] = IF MemberPresent(op[p], fetched[p]) THEN PriorState(op[p])
                     ELSE <<>>

\* the Put and Delete calls a key handler issued
KeyWrites(p) == SelectSeq(calls[p], LAMBDA c : c[1] \in {"KVPut", "KVDelete"})

\* the successful Creates of keys by p that returned, when they and the
\* running handler are all that was started
OnlyCreateBefore(p) ==
  {d \in done : /\ d.p = p /\ d.op.res = "key" /\ d.op.fn = "Create" /\ ~d.err
                /\ done = {d} /\ opsStarted = 2}

\* C17: a successful Read that follows a successful Create(path, value), no
\* other handler having run, leaves a state whose value is the value written
\* and whose id is the path; a successful Read of a path that holds no key
\* removes the resource from the state and issues no Put and no Delete.
\* (fetched holds the pair the Get of the Read returned.)
C17_KeyRoundTrip ==
  \A p \in Procs :
    (Finished(p, "key", "Read") /\ ~diag[p])
    => /\ \A d \in OnlyCreateBefore(p) :
            /\ state[p] # <<>>
            /\ state[p][1].data.Path = d.op.data.Path
            /\ state[p][1].data.Value = d.op.data.Value
            /\ state[p][1].Id = <<d.op.data.Path>>
       /\ fetched[p] = <<Absent>> => (state[p] = <<>> /\ KeyWrites(p) = <<>>)

\* a Read after the Create of a key with a non-empty value
C17_Witness ==
  \E p \in Procs :
    /\ Finished(p, "key", "Read") /\ ~diag[p] /\ state[p] # <<>>
    /\ \E d \in OnlyCreateBefore(p) :
         d.op.data.Value # <<>> /\ state[p][1].data.Value = d.op.data.Value

\* position of the first call of a kind among the calls of a handler, 0 if none
CallIdx(p, kind) ==
  FirstIdx([i \in 1..Len(calls[p]) |-> calls[p][i][1] = kind], 0)

\* C18: an Update of a key whose plan has delete set issues a Delete of the
\* path the key was written under, before its Put; an Update whose plan has
\* delete unset issues no Delete.
C18_DeleteBeforeWrite ==
  \A p \in Procs :
    (pc[p] = "done" /\ op[p].res = "key" /\ op[p].fn = "Update" /\ CallIdx(p, "KVPut") > 0)
    => IF op[p].data.Delete
       THEN /\ CallIdx(p, "KVDelete") > 0
            /\ CallIdx(p, "KVDelete") < CallIdx(p, "KVPut")
            /\ calls[p][CallIdx(p, "KVDelete")][3] = op[p].oldData.Path
       ELSE CallIdx(p, "KVDelete") = 0

\* what C19 asks of the step that runs the Delete handler of a key for p
DeleteHonoursFlag(p) ==
  LET data == op'[p].data
  IN IF data.Delete
     THEN /\ calls'[p] = <<<<"KVDelete", "kv", data.Path>>>>
          /\ IF diag'[p]
             THEN state'[p] = state[p] /\ kv' = kv
             ELSE state'[p] = <<>> /\ kv' = [kv EXCEPT ![data.Path] = Absent]
     ELSE /\ calls'[p] = <<>>
          /\ ~diag'[p]
          /\ kv' = kv
          /\ state'[p] = <<>>

\* C19: a Delete of a key with delete set issues one remote Delete of the path
\* and removes the resource from the state only when that call succeeds, its
\* failure being reported with the resource left in the state; with delete
\* unset it issues no remote call, leaves the key and its value in the store
\* and removes the resource from the state.
C19_DeleteHonoursFlag ==
  [][\A p \in Procs :
       (pc[p] = "idle" /\ pc'[p] = "done" /\ op'[p].res = "key" /\ op'[p].fn = "Delete")
       => DeleteHonoursFlag(p)]_vars

\* a Delete with delete unset returned while the store holds the key
C19_Witness ==
  \E p \in Procs :
    /\ Finished(p, "key", "Delete") /\ ~op[p].data.Delete
    /\ kv[op[p].data.Path] # Absent /\ state[p] = <<>>

\* positions of the entries named like the service a Delete removes from
NamedLike(p) ==
  {k \in 1..Len(fetched[p]) : fetched[p][k].Name = op[p].oldData.ServiceToExport}

\* the document C20 expects from a removal on entry k: the entry dropped when
\* the peer is its only consumer, the first occurrence of the peer dropped
\* from its consumers otherwise
LastConsumerRemoved(services, k, peer) ==
  LET consumers == services[k].Consumers
      i == FirstIdx([j \in 1..Len(consumers) |-> consumers[j].Peer = peer], 0)
  IN IF consumers = <<ServiceConsumer(peer)>>
     THEN RemoveAt(services, k)
     ELSE [services EXCEPT ![k].Consumers = RemoveAt(consumers, i)]

\* C20: a Delete for (S, P) on a document whose one entry named S holds P
\* writes the document without that entry when P is its only consumer, and
\* with P taken out of the entry's consumers otherwise; every other entry is
\* written as read, in the same order.
C20_LastConsumerRemovesEntry ==
  \A p \in Procs :
    ( /\ pc[p] = "done" /\ op[p].fn = "Delete" /\ Wrote(p)
      /\ op[p].res \in {"exported", "exportedUnlocked"}
      /\ Cardinality(NamedLike(p)) = 1
      /\ HasConsumer(fetched[p], op[p].oldData) )
    => \A k \in NamedLike(p) :
         written[p] = LastConsumerRemoved(fetched[p], k, op[p].oldData.PeerName)

\* position of the first entry, in list order, that is named like the service
\* and holds the peer; 0 when no entry does
FirstHolder(services, data) ==
  FirstIdx([k \in 1..Len(services) |->
              /\ services[k].Name = data.ServiceToExport
              /\ \E j \in 1..Len(services[k].Consumers) :
                   services[k].Consumers[j].Peer = data.PeerName], 0)

\* the document read without the first member that equals the one removed
FirstMatchRemoved(o, entries) ==
  IF o.res = "exported"
  THEN LastConsumerRemoved(entries, FirstHolder(entries, o.oldData), o.oldData.PeerName)
  ELSE RemoveAt(entries, FirstIdx([i \in 1..Len(entries) |->
                                     entries[i] = SourceIntention(o.oldData)], 0))

\* C21: a Delete on a document that holds a member equal to the one removed
\* writes the document without the first such member in list order and with
\* every other member, later duplicates included, in the order read.
C21_FirstMatchRemoval ==
  \A p \in Procs :
    ( /\ pc[p] = "done" /\ op[p].fn = "Delete"
      /\ op[p].res \in {"exported", "intention"}
      /\ MemberPresent(op[p], fetched[p]) )
    => written[p] = FirstMatchRemoved(op[p], fetched[p])

\* how many copies of the member of data the remote document of its kind holds
Copies(res, data) ==
  IF res = "exported"
  THEN Cardinality({<<k, j>> \in (1..MaxEntries + 2) \X (1..MaxConsumers + 2) :
                      /\ k <= Len(exportedServices.entries)
                      /\ exportedServices.entries[k].Name = data.ServiceToExport
                      /\ j <= Len(exportedServices.entries[k].Consumers)
                      /\ exportedServices.entries[k].Consumers[j].Peer = data.PeerName})
  ELSE LET sources == serviceIntentions[data.DestinationService].entries
       IN Cardinality({i \in 1..Len(sources) : sources[i] = SourceIntention(data)})

\* C22: once two Creates with identical values have both returned without
\* error, and nothing else ran, the document holds two copies of the member.
C22_NoDuplicateDetection ==
  ( /\ \A p \in Procs : pc[p] = "idle"
    /\ opsStarted = 2 /\ Cardinality(done) = 2
    /\ \A d \in done : d.op.fn = "Create" /\ ~d.err /\ d.op.res \in {"exported", "intention"}
    /\ \A d, e \in done : d.op.res = e.op.res /\ d.op.data = e.op.data )
  => \A d \in done : Copies(d.op.res, d.op.data) = 2

\* the lock of the document an operation works on is free
DocLockFree(res, name) ==
  IF res = "exported" THEN exportedServiceLock = 0
  ELSE name \in DOMAIN singleIntentionMutexes => mutexes[singleIntentionMutexes[name]] = 0

\* an operation is between its Lock and its return for that document
Inside(p, res, name) ==
  /\ InCS(p) /\ op[p].res = res
  /\ res = "intention" => MutexKey(op[p]) = name

\* what C23 asks of one step: a held lock becomes free only by a step in which
\* its holder leaves the handler, and a Create, Update or Delete that leaves
\* its handler holds no lock afterwards
ReleasedByHolder ==
  \A q \in Procs :
    /\ exportedServiceLock = q /\ exportedServiceLock' # q
         => exportedServiceLock' = 0 /\ InCS(q) /\ ~InCS(q)'
    /\ \A h \in 1..Len(mutexes) :
         mutexes[h] = q /\ mutexes'[h] # q
           => mutexes'[h] = 0 /\ InCS(q) /\ ~InCS(q)'
    /\ (InCS(q) /\ ~InCS(q)') => HoldsNoLock(q)'

\* C23: every Create, Update and Delete has released its document lock when it
\* returns, whether its write succeeded or failed, so the lock of a document no
\* operation is inside of is free; and only the holder releases a lock.
C23_LockReleased ==
  /\ [](\A name \in DestinationNames :
          /\ (\A p \in Procs : ~Inside(p, "intention", name))
               => DocLockFree("intention", name)
          /\ (\A p \in Procs : ~Inside(p, "exported", "default"))
               => DocLockFree("exported", "default"))
  /\ [][ReleasedByHolder]_vars

\* a handler whose write failed has returned and its lock is free
C23_Witness ==
  /\ \E d \in done : d.err /\ d.op.fn \in CUD /\ d.op.res = "intention"
                     /\ DocLockFree("intention", MutexKey(d.op))
                     /\ MutexKey(d.op) \in DOMAIN singleIntentionMutexes
  /\ \A p \in Procs : pc[p] = "idle"

\* C24: a Create, Update or Delete issues its Set or Delete exactly once, and
\* when that call fails it reports the error and leaves the persisted state as
\* it was: no new state or id after Create and Update, the resource kept
\* after Delete.
C24_FailedWriteAborts ==
  \A p \in Procs :
    (pc[p] = "done" /\ op[p].res \in {"exported", "intention"} /\ op[p].fn \in CUD)
    => /\ Len(Writes(p)) = 1
       /\ diag[p] => state[p] = PriorState(op[p])

\* the write of a Delete failed and the resource is still in the state
C24_Witness ==
  \E p \in Procs :
    /\ Finished(p, "intention", "Delete") /\ diag[p]
    /\ Len(Writes(p)) = 1 /\ state[p] # <<>>

\* the per-key locks a process holds
KeyLocksHeld(p) ==
  {h \in 1..Len(mutexes) : mutexes[h] = p}
  \cup (IF exportedServiceLock = p THEN {0} ELSE {})

\* p is blocked in a Lock call on a lock that q holds
WaitsFor(p, q) ==
  \/ pc[p] = "getMutex" /\ singleIntentionMutexesLock = q
  \/ /\ pc[p] = "lock"
     /\ IF op[p].res = "exported" THEN exportedServiceLock = q
        ELSE mutexes[mutexToHangOn[p]] = q

\* C25: no operation holds two per-key locks; the registry lock is held only
\* during the lookup and lazy insert, by an operation that holds no per-key
\* lock, and is free again when the per-key lock is requested; an operation
\* that waits for a lock holds none, so no operations wait on each other.
C25_SingleLevelLocking ==
  \A p \in Procs :
    /\ Cardinality(KeyLocksHeld(p)) <= 1
    /\ singleIntentionMutexesLock = p => (pc[p] = "registry" /\ KeyLocksHeld(p) = {})
    /\ pc[p] \in {"getMutex", "lock"} => HoldsNoLock(p)
    /\ \A q \in Procs : ~(WaitsFor(p, q) /\ WaitsFor(q, p))

\* an operation is in the lookup, holding the registry lock, while another is
\* inside the critical section of a destination
C25_Witness ==
  \E p, q \in Procs :
    /\ pc[p] = "registry" /\ singleIntentionMutexesLock = p
    /\ InCS(q) /\ op[q].res = "intention" /\ KeyLocksHeld(q) # {}

\* a Create, Update or Delete of a locked resource has started and not returned
Running(p) ==
  pc[p] # "idle" /\ op[p].res \in {"exported", "intention"} /\ op[p].fn \in CUD

\* a handler blocked on a held per-key lock has another handler inside the
\* critical section of the same document
WaitsOnlyForSameKey ==
  \A p \in Procs :
    (pc[p] = "lock" /\ \E q \in Procs : WaitsFor(p, q))
    => \E q \in Procs : q # p /\ InCS(q) /\ DocKey(q) = DocKey(p)

\* C26: when every remote call returns and lock acquisition is fair, every
\* Create, Update and Delete that starts returns with its lock free, and a
\* handler waits for a per-key lock only while another handler is inside the
\* critical section of the same document.
C26_Progress ==
  /\ \A p \in Procs : Running(p) ~> (pc[p] = "idle" /\ HoldsNoLock(p))
  /\ []WaitsOnlyForSameKey

\* how many sources of a list equal the given one
CountOf(sources, source) ==
  Cardinality({i \in 1..Len(sources) : sources[i] = source})

\* C27: a successful Delete, or Update, of an intention without source_peer on
\* a document that holds both its own source and a source of the same name
\* with a peer writes a document that still holds every source with a peer.
C27_OtherSourceKept ==
  \A p \in Procs :
    ( /\ pc[p] = "done" /\ op[p].res = "intention" /\ op[p].fn \in {"Delete", "Update"}
      /\ ~diag[p] /\ op[p].oldData.SourcePeer = Null
      /\ HasSource(fetched[p], op[p].oldData) )
    => \A peer \in SourcePeers :
         LET other == [Name |-> op[p].oldData.SourceService, Peer |-> peer]
         IN CountOf(written[p], other) >= CountOf(fetched[p], other)

\* the destination whose registered handle is the per-key lock p holds
HeldKeys(p) ==
  {k \in DOMAIN singleIntentionMutexes : mutexes[singleIntentionMutexes[k]] = p}

\* C28: every remote call of an intention Create, Update or Delete is made
\* while the operation holds a per-key lock, and the document it fetches,
\* writes or deletes is the service-intentions document named by the key of
\* that lock; the fetch and the write of one operation name one document.
C28_LockKeyIsDocumentKey ==
  [][\A p \in Procs :
       (op[p].res = "intention" /\ op[p].fn \in CUD /\ Len(calls'[p]) > Len(calls[p]))
       => /\ HeldKeys(p) # {} /\ HeldKeys(p)' = HeldKeys(p)
          /\ \A i \in 1..Len(calls'[p]) :
               /\ calls'[p][i][2] = "service-intentions"
               /\ HeldKeys(p) = {calls'[p][i][3]}]_vars

\* an Update that moves the intention to another destination has fetched and
\* written under the lock of the new destination
C28_Witness ==
  \E p \in Procs :
    /\ Finished(p, "intention", "Update") /\ ~diag[p]
    /\ op[p].oldData.DestinationService # op[p].data.DestinationService
    /\ Len(calls[p]) = 2 /\ Wrote(p)
    /\ HeldKeys(p) = {op[p].data.DestinationService}

\* p has obtained the handle of its key from getMutexForSingleIntention
HasHandle(p) ==
  /\ pc[p] \in {"lock", "read", "write", "done"}
  /\ op[p].res = "intention" /\ op[p].fn \in CUD

\* the registry changes only by the first request for a key adding that key
RegistryOnlyGrows ==
  /\ DOMAIN singleIntentionMutexes \subseteq DOMAIN singleIntentionMutexes'
  /\ \A k \in DOMAIN singleIntentionMutexes :
       singleIntentionMutexes'[k] = singleIntentionMutexes[k]
  /\ \A k \in DOMAIN singleIntentionMutexes' \ DOMAIN singleIntentionMutexes :
       \E p \in Procs : /\ pc[p] = "registry" /\ MutexKey(op[p]) = k
                        /\ HasHandle(p)'

\* C29: the registry keeps every key it has with the handle it first got:
\* a step only adds the key of the request being served; every operation
\* that has obtained a handle for a key holds the handle registered for that
\* key, so operations with the same key have the same handle.
C29_RegistryStable ==
  /\ [](\A p \in Procs :
          HasHandle(p) => /\ MutexKey(op[p]) \in DOMAIN singleIntentionMutexes
                          /\ mutexToHangOn[p] = singleIntentionMutexes[MutexKey(op[p])]
                          /\ \A q \in Procs :
                               (HasHandle(q) /\ MutexKey(op[q]) = MutexKey(op[p]))
                               => mutexToHangOn[q] = mutexToHangOn[p])
  /\ [][RegistryOnlyGrows]_vars

\* two operations whose first calls for one key overlapped both have its handle
C29_Witness ==
  \E p, q \in Procs :
    /\ p # q /\ HasHandle(p) /\ HasHandle(q)
    /\ MutexKey(op[p]) = MutexKey(op[q])
    /\ mutexToHangOn[p] = mutexToHangOn[q]
    /\ pc[p] = "lock" /\ pc[q] = "lock"
    /\ opsStarted = 2 /\ done = {}

====
